---- MODULE Spec2Model ----
(***************************************************************************)
(* A model of dng_batch_converter.py: main, find_adobe_executable,         *)
(* process_single_folder, setup_logger and generate_unique_path.           *)
(*                                                                         *)
(* File names are sequences of one-character strings, so that formatting   *)
(* (f"{base_name}_{counter}{extension}"), Path.stem, Path.suffix and       *)
(* str.lower are computed character by character.                          *)
(***************************************************************************)
EXTENDS Integers, Sequences, FiniteSets, TLC

\* ------------------------------------------------------------------ bounds
\* Most lines the list file holds.
MaxFolders == 2

\* ------------------------------------------------------------- text helpers
DigitChar == <<"0", "1", "2", "3", "4", "5", "6", "7", "8", "9">>

RECURSIVE IntToStr(_)
\* str(counter) inside the f-string of generate_unique_path.
IntToStr(n) ==
    IF n < 10 THEN <<DigitChar[n + 1]>>
    ELSE IntToStr(n \div 10) \o <<DigitChar[(n % 10) + 1]>>

\* str.lower on one character (the letters the modelled names use).
LowerChar(c) ==
    CASE c = "C" -> "c"
      [] c = "R" -> "r"
      [] c = "D" -> "d"
      [] c = "N" -> "n"
      [] c = "G" -> "g"
      [] c = "I" -> "i"
      [] c = "M" -> "m"
      [] OTHER -> c

\* f.suffix.lower()
Lower(s) == [j \in 1..Len(s) |-> LowerChar(s[j])]

\* name.rfind('.') as a 1-based position, 0 when there is no dot.
RFindDot(name) ==
    LET hits == {j \in 1..Len(name) : name[j] = "."}
    IN  IF hits = {} THEN 0 ELSE CHOOSE j \in hits : \A h \in hits : h <= j

\* pathlib's rule: a dot that is neither the first nor the last character.
HasSuffix(name) == RFindDot(name) > 1 /\ RFindDot(name) < Len(name)

\* Path.suffix
Suffix(name) ==
    IF HasSuffix(name) THEN SubSeq(name, RFindDot(name), Len(name)) ELSE <<>>

\* Path.stem
Stem(name) ==
    IF HasSuffix(name) THEN SubSeq(name, 1, RFindDot(name) - 1) ELSE name

\* ------------------------------------------------------ program constants
SUPPORTED_EXTENSIONS == {<<".", "c", "r", "2">>, <<".", "c", "r", "3">>}
OUTPUT_DIR_NAME == <<"D", "N", "G">>
LOG_FILENAME ==
    <<"c", "o", "n", "v", "e", "r", "s", "i", "o", "n", "_", "l", "o", "g", ".", "t", "x", "t">>
DNG_EXT == <<".", "d", "n", "g">>

\* ---------------------------------------------------- generate_unique_path
\* Lines 109-110: the extension gets a leading dot when it has none.
NormExt(extension) ==
    IF Len(extension) > 0 /\ extension[1] = "." THEN extension
    ELSE <<".">> \o extension

\* Lines 112 and 117: the candidate name for a counter value.
Candidate(base_name, ext, counter) ==
    IF counter = 0 THEN base_name \o ext
    ELSE base_name \o <<"_">> \o IntToStr(counter) \o ext

RECURSIVE Probe(_, _, _, _)
\* Lines 115-118: the while loop, D being the names that exist in dest_folder.
Probe(D, base_name, ext, counter) ==
    IF Candidate(base_name, ext, counter) \in D
    THEN Probe(D, base_name, ext, counter + 1)
    ELSE [filename |-> Candidate(base_name, ext, counter), counter |-> counter]

\* Mutant: no probing at all, the first candidate is returned as it is.
gup_NoProbe(D, base_name, extension) ==
    [filename |-> Candidate(base_name, NormExt(extension), 0), counter |-> 0]

\* Mutant: the loop body runs at most once (an `if` where the code has `while`).
gup_ProbeOnce(D, base_name, extension) ==
    IF Candidate(base_name, NormExt(extension), 0) \in D
    THEN [filename |-> Candidate(base_name, NormExt(extension), 1), counter |-> 1]
    ELSE [filename |-> Candidate(base_name, NormExt(extension), 0), counter |-> 0]

\* The returned (filename, counter); file_path is dest_folder / filename.
generate_unique_path(D, base_name, extension) ==
    Probe(D, base_name, NormExt(extension), 0)


\* ------------------------------------------------------------------- state
VARIABLES
    pc,           \* where control is: a step of main or of process_single_folder
    exit_status,  \* -1 while running, else the process's exit status
    fatal,        \* why the run ended early, "none" otherwise
    list_exists,  \* list_path.exists() (line 235)
    adobe_exe,    \* "path" once find_adobe_executable has returned one, else "none"
    find_calls,   \* how many times find_adobe_executable was evaluated
    folders,      \* the list main reads (line 244)
    fi,           \* index into folders of the folder in progress
    called,       \* the arguments process_single_folder was called with, in order
    src,          \* src[f]: name -> content, the files that are direct children of f
    out_dir,      \* out_dir[f]: whether f/DNG exists
    out,          \* out[f]: name -> content, the files in f/DNG
    logs,         \* logs[f]: the records in f/DNG/conversion_log.txt, <<emitter, kind>>
    handlers,     \* logging.getLogger().handlers
    raw_files,    \* the list built at lines 152-155, in enumeration order
    k,            \* 1-based index of the raw file the loop of line 165 is at
    stats,        \* the counters of line 163
    results,      \* history: what became of each raw file processed in this folder
    last,         \* history: the last iteration of the loop of line 165, in full
    src0,         \* history: src[f] when process_single_folder was called
    out0,         \* history: out[f] when process_single_folder was called
    gup           \* the last direct call of generate_unique_path (SpecGen only)

vars == <<pc, exit_status, fatal, list_exists, adobe_exe, find_calls, folders, fi,
          called, src, out_dir, out, logs, handlers, raw_files, k, stats, results,
          last, src0, out0, gup>>

\* ------------------------------------------------------------- file system
Folders == {"A", "B", "X"}

\* What each listed path is on disk: X names nothing.
FolderKind == [f \in Folders |-> IF f = "X" THEN "missing" ELSE "dir"]

IMG_0001 == <<"I", "M", "G", "_", "0", "0", "0", "1">>
IMG_0001_1 == IMG_0001 \o <<"_", "1">>
ext_cr2 == <<".", "c", "r", "2">>
ext_cr3 == <<".", "c", "r", "3">>
ext_CR2 == <<".", "C", "R", "2">>
ext_jpg == <<".", "j", "p", "g">>

\* What folder A may hold: no raw file, one raw file, two raw files with one stem
\* (one of them with an upper-case extension).
SourceDirs ==
    {{IMG_0001 \o ext_jpg},
     {IMG_0001 \o ext_cr2, IMG_0001 \o ext_jpg},
     {IMG_0001 \o ext_CR2, IMG_0001 \o ext_cr3}}

EmptyDir == [n \in {} |-> <<>>]

SourceDir(f, names) == [n \in names |-> <<"raw", f, n>>]

OldFiles(names) == [n \in names |-> <<"old", n>>]

None == {<<>>}

\* What A/DNG may hold before the run (None: the directory does not exist).
InitialOutputs ==
    {{IMG_0001 \o DNG_EXT},
     {IMG_0001 \o DNG_EXT, IMG_0001_1 \o DNG_EXT}}

NoStats == [converted |-> 0, copied |-> 0, errors |-> 0]

NoFile == [raw |-> <<>>, D |-> {}, dng_name |-> <<>>, idx |-> -1, warned |-> FALSE,
           run |-> "none", returncode |-> -1, output_exists |-> FALSE,
           copy_probe |-> "none", copy_attempts |-> 0, copy_name |-> <<>>,
           copy_D |-> {}, result |-> "none"]

NoCall == [D |-> {}, base_name |-> <<>>, extension |-> <<>>,
           filename |-> <<>>, counter |-> -1]

Init ==
    /\ pc = "main"
    /\ exit_status = -1
    /\ fatal = "none"
    /\ list_exists \in BOOLEAN
    /\ adobe_exe = "none"
    /\ find_calls = 0
    /\ folders = <<>>
    /\ fi = 0
    /\ called = <<>>
    /\ \E names \in SourceDirs :
         src = [f \in Folders |->
                  CASE f = "A" -> SourceDir(f, names)
                    [] f = "B" -> SourceDir(f, {IMG_0001 \o ext_jpg})
                    [] OTHER -> EmptyDir]
    /\ \E names \in InitialOutputs \cup {None} :
         /\ out_dir = [f \in Folders |-> f = "A" /\ names # None]
         /\ out = [f \in Folders |->
                    IF f = "A" /\ names # None THEN OldFiles(names) ELSE EmptyDir]
    /\ logs = [f \in Folders |-> {}]
    /\ handlers = <<>>
    /\ raw_files = <<>>
    /\ k = 0
    /\ stats = NoStats
    /\ results = <<>>
    /\ last = NoFile
    /\ src0 = EmptyDir
    /\ out0 = EmptyDir
    /\ gup = NoCall


\* ------------------------------------------------------------------ logging
IsFileHandler(h) == h[1] = "file"

\* A record of folder f reaches every file the attached file handlers write to.
Emit(lg, hs, f, kinds) ==
    [g \in Folders |->
       IF \E j \in 1..Len(hs) : hs[j] = <<"file", g>>
       THEN lg[g] \cup {<<f, kd>> : kd \in kinds}
       ELSE lg[g]]

\* Mutant: the previous handlers stay attached.
KeepHandlers(hs) == hs

\* Lines 50-51: if logger.hasHandlers(): logger.handlers.clear()
ClearHandlers(hs) == IF Len(hs) > 0 THEN <<>> ELSE hs

\* Lines 40-73, for dest_folder = f/DNG; open_ok: logging.FileHandler did not raise.
setup_logger(hs, f, open_ok) ==
    IF open_ok
    THEN [ok |-> TRUE,
          handlers |-> Append(Append(ClearHandlers(hs), <<"file", f>>), <<"console">>)]
    ELSE [ok |-> FALSE, handlers |-> ClearHandlers(hs)]

\* ------------------------------------------------------------- the locator
\* Lines 75-101. env_path: "unset" (or empty), "exists" or "missing". Which path
\* is returned plays no part in what follows, so every returned path is "path".
find_adobe_executable(env_path, system_os, default_exists) ==
    IF env_path = "exists"
    THEN [exits |-> FALSE, path |-> "path", fatal |-> "none"]
    ELSE IF system_os \notin {"Windows", "Darwin"}
    THEN [exits |-> TRUE, path |-> "none", fatal |-> "unsupported_os"]
    ELSE IF ~default_exists
    THEN [exits |-> TRUE, path |-> "none", fatal |-> "not_found"]
    ELSE [exits |-> FALSE, path |-> "path", fatal |-> "none"]

\* Mutant: main goes on without the list file.
ListCheckSkipped(exists) == TRUE

\* Line 235: main goes on only when list_path.exists().
ListCheckPasses(exists) == exists

\* An exception nothing catches: a traceback and exit status 1.
Uncaught ==
    /\ pc' = "exited"
    /\ exit_status' = 1
    /\ fatal' = "uncaught"

\* -------------------------------------------------------------------- main
\* Lines 233-237.
MainCheckList ==
    /\ pc = "main"
    /\ IF ListCheckPasses(list_exists)
       THEN pc' = "find_exe" /\ UNCHANGED <<exit_status, fatal>>
       ELSE pc' = "exited" /\ exit_status' = 1 /\ fatal' = "no_list"
    /\ UNCHANGED <<list_exists, adobe_exe, find_calls, folders, fi, called, src,
                   out_dir, out, logs, handlers, raw_files, k, stats, results,
                   last, src0, out0, gup>>

\* Line 239.
MainFindExe ==
    /\ pc = "find_exe"
    /\ \E env_path \in {"unset", "exists", "missing"},
          system_os \in {"Windows", "Darwin", "Linux"},
          default_exists \in BOOLEAN :
         LET r == find_adobe_executable(env_path, system_os, default_exists)
         IN  /\ adobe_exe' = r.path
             /\ IF r.exits
                THEN pc' = "exited" /\ exit_status' = 1 /\ fatal' = r.fatal
                ELSE pc' = "read_list" /\ UNCHANGED <<exit_status, fatal>>
    /\ find_calls' = find_calls + 1
    /\ UNCHANGED <<list_exists, folders, fi, called, src, out_dir, out, logs,
                   handlers, raw_files, k, stats, results, last, src0,
                   out0, gup>>

RECURSIVE NonBlank(_)
\* Line 244: the stripped lines that are not empty, in order.
NonBlank(lines) ==
    IF lines = <<>> THEN <<>>
    ELSE IF Head(lines) = "" THEN NonBlank(Tail(lines))
    ELSE <<Head(lines)>> \o NonBlank(Tail(lines))

\* Lines 243-247; "" is a blank line of the list file.
MainReadList ==
    /\ pc = "read_list"
    /\ \E n \in 0..MaxFolders :
         \E lines \in [1..n -> Folders \cup {""}] :
           folders' = NonBlank(lines)
    /\ pc' = "loop"
    /\ UNCHANGED <<exit_status, fatal, list_exists, adobe_exe, find_calls, fi,
                   called, src, out_dir, out, logs, handlers, raw_files, k, stats,
                   results, last, src0, out0, gup>>

\* Lines 249-251: the next folder is handed to process_single_folder.
MainCallFolder ==
    /\ pc = "loop"
    /\ fi < Len(folders)
    /\ fi' = fi + 1
    /\ called' = Append(called, folders[fi + 1])
    /\ src0' = src[folders[fi + 1]]
    /\ out0' = out[folders[fi + 1]]
    /\ pc' = "resolve"
    /\ UNCHANGED <<exit_status, fatal, list_exists, adobe_exe, find_calls, folders,
                   src, out_dir, out, logs, handlers, raw_files, k, stats, results,
                   last, gup>>

\* Line 253 and the normal end of the script.
MainComplete ==
    /\ pc = "loop"
    /\ fi = Len(folders)
    /\ pc' = "exited"
    /\ exit_status' = 0
    /\ UNCHANGED <<fatal, list_exists, adobe_exe, find_calls, folders, fi, called,
                   src, out_dir, out, logs, handlers, raw_files, k, stats, results,
                   last, src0, out0, gup>>

\* --------------------------------------------------- process_single_folder
Cur == folders[fi]

\* process_single_folder returns (lines 130, 138, 142, 159, 226): its locals are
\* gone and main's loop goes on.
Return ==
    /\ pc' = "loop"
    /\ raw_files' = <<>>
    /\ k' = 0
    /\ stats' = NoStats
    /\ results' = <<>>
    /\ last' = NoFile
    /\ src0' = EmptyDir
    /\ out0' = EmptyDir

\* Lines 126-130. Path.resolve is outside any try block.
ResolveFolder ==
    /\ pc = "resolve"
    /\ \E resolve_ok \in BOOLEAN :
         IF ~resolve_ok
         THEN /\ Uncaught
              /\ UNCHANGED <<raw_files, k, stats, results, last, src0, out0>>
         ELSE IF FolderKind[Cur] = "dir"
         THEN /\ pc' = "mkdir"
              /\ UNCHANGED <<exit_status, fatal, raw_files, k, stats, results, last,
                             src0, out0>>
         ELSE /\ Return
              /\ UNCHANGED <<exit_status, fatal>>
    /\ UNCHANGED <<list_exists, adobe_exe, find_calls, folders, fi, called, src,
                   out_dir, out, logs, handlers, gup>>

\* Lines 133-138.
MakeOutputDir ==
    /\ pc = "mkdir"
    /\ \E mkdir_ok \in BOOLEAN :
         IF mkdir_ok
         THEN /\ out_dir' = [out_dir EXCEPT ![Cur] = TRUE]
              /\ pc' = "setup_logger"
              /\ UNCHANGED <<raw_files, k, stats, results, last, src0, out0>>
         ELSE /\ Return
              /\ UNCHANGED out_dir
    /\ UNCHANGED <<exit_status, fatal, list_exists, adobe_exe, find_calls, folders,
                   fi, called, src, out, logs, handlers, gup>>

\* Lines 141-142: mode 'w' creates or truncates the log file.
SetupLogger ==
    /\ pc = "setup_logger"
    /\ \E open_ok \in BOOLEAN :
         LET r == setup_logger(handlers, Cur, open_ok)
         IN  /\ handlers' = r.handlers
             /\ IF r.ok
                THEN /\ logs' = [logs EXCEPT ![Cur] = {}]
                     /\ out' = [out EXCEPT ![Cur] = (LOG_FILENAME :> <<"log">>) @@ @]
                     /\ pc' = "enumerate"
                     /\ UNCHANGED <<raw_files, k, stats, results, last, src0, out0>>
                ELSE /\ Return
                     /\ UNCHANGED <<logs, out>>
    /\ UNCHANGED <<exit_status, fatal, list_exists, adobe_exe, find_calls, folders,
                   fi, called, src, out_dir, gup>>

\* The orders iterdir may list a set of names in.
Orders(S) ==
    {o \in [1..Cardinality(S) -> S] : \A a, b \in 1..Cardinality(S) : o[a] = o[b] => a = b}

\* Lines 153-154: the children that are files with a supported extension;
\* the DNG directory is a child too, and is no file.
RawOf(f) ==
    {n \in DOMAIN src[f] \cup (IF out_dir[f] THEN {OUTPUT_DIR_NAME} ELSE {}) :
       /\ n \in DOMAIN src[f]
       /\ Lower(Suffix(n)) \in SUPPORTED_EXTENSIONS}

\* Lines 144-163. iterdir is outside any try block.
EnumerateFiles ==
    /\ pc = "enumerate"
    /\ \E iter_ok \in BOOLEAN :
         IF ~iter_ok
         THEN /\ Uncaught
              /\ logs' = Emit(logs, handlers, Cur, {"started", "template"})
              /\ UNCHANGED <<raw_files, k, stats, results, last, src0, out0>>
         ELSE IF RawOf(Cur) = {}
         THEN /\ logs' = Emit(logs, handlers, Cur, {"started", "template", "no_files"})
              /\ Return
              /\ UNCHANGED <<exit_status, fatal>>
         ELSE /\ \E o \in Orders(RawOf(Cur)) : raw_files' = o
              /\ logs' = Emit(logs, handlers, Cur, {"started", "template", "found"})
              /\ k' = 1
              /\ stats' = NoStats
              /\ pc' = "file"
              /\ UNCHANGED <<exit_status, fatal, results, last, src0, out0>>
    /\ UNCHANGED <<list_exists, adobe_exe, find_calls, folders, fi, called, src,
                   out_dir, out, handlers, gup>>


\* Mutant: a failure is counted twice.
BumpTwiceOnError(st, key) ==
    [st EXCEPT ![key] = IF key = "errors" THEN @ + 2 ELSE @ + 1]

\* Lines 189, 213, 218, 222: stats[key] += 1
Bump(st, key) == [st EXCEPT ![key] = @ + 1]

\* Mutant: the subprocess's exit status decides.
SucceededByExitStatus(output_exists, returncode) == returncode = 0

\* Line 188: if dng_path.exists()
ConversionSucceeded(output_exists, returncode) == output_exists

\* Mutant: the warning is skipped for the first rename.
WarnedAfterFirst(idx) == idx > 1

\* Line 171: if idx > 0
CollisionWarned(idx) == idx > 0

\* Mutant: the output is named after the stem without looking at the directory.
DngTargetUnchecked(D, raw) == [filename |-> Stem(raw) \o DNG_EXT, counter |-> 0]

\* Line 167.
DngTarget(D, raw) == generate_unique_path(D, Stem(raw), DNG_EXT)

\* Mutant: the copy is named like a conversion output.
CopyTargetAsDng(D, raw) == generate_unique_path(D, Stem(raw), DNG_EXT)

\* Line 204.
CopyTarget(D, raw) == generate_unique_path(D, Stem(raw), Suffix(raw))

\* Lines 167-222 for one raw file of folder f, given what the environment does:
\* run: subprocess.run "returned" or "raised"; returncode: its exit status;
\* creates: the converter wrote the file named by -o; copy_probe_ok: line 204 did
\* not raise; copy_ok: shutil.copy2 did not raise.
FileOutcome(f, raw, outf, st, run, returncode, creates, copy_probe_ok, copy_ok) ==
    LET D == DOMAIN outf
        t == DngTarget(D, raw)
        warned == CollisionWarned(t.counter)
        kinds1 == {"processing"} \cup (IF warned THEN {"collision"} ELSE {})
        out1 == IF creates THEN (t.filename :> <<"dng", f, raw>>) @@ outf ELSE outf
        output_exists == t.filename \in DOMAIN out1
        c == CopyTarget(DOMAIN out1, raw)
        rec == [raw |-> raw, D |-> D, dng_name |-> t.filename, idx |-> t.counter,
                warned |-> warned, run |-> run, returncode |-> returncode,
                output_exists |-> output_exists, copy_probe |-> "none",
                copy_attempts |-> 0, copy_name |-> <<>>, copy_D |-> {},
                result |-> "error"]
    IN  IF run = "raised"
        THEN [out |-> out1, stats |-> Bump(st, "errors"),
              kinds |-> kinds1 \cup {"fatal_python_error"}, rec |-> rec]
        ELSE IF ConversionSucceeded(output_exists, returncode)
        THEN [out |-> out1, stats |-> Bump(st, "converted"), kinds |-> kinds1,
              rec |-> [rec EXCEPT !.result = "converted"]]
        ELSE IF ~copy_probe_ok
        THEN [out |-> out1, stats |-> Bump(st, "errors"),
              kinds |-> kinds1 \cup {"conversion_failed", "attempt_copy", "copy_failed"},
              rec |-> [rec EXCEPT !.copy_probe = "raised"]]
        ELSE IF copy_ok
        THEN [out |-> (c.filename :> src[f][raw]) @@ out1,
              stats |-> Bump(st, "copied"),
              kinds |-> kinds1 \cup {"conversion_failed", "attempt_copy", "copied"},
              rec |-> [rec EXCEPT !.copy_probe = "ok", !.copy_attempts = 1,
                                  !.copy_name = c.filename, !.copy_D = DOMAIN out1,
                                  !.result = "copied"]]
        ELSE [out |-> out1, stats |-> Bump(st, "errors"),
              kinds |-> kinds1 \cup {"conversion_failed", "attempt_copy", "copy_failed"},
              rec |-> [rec EXCEPT !.copy_probe = "ok", !.copy_attempts = 1,
                                  !.copy_name = c.filename, !.copy_D = DOMAIN out1]]

\* Lines 165-222: one iteration of the loop. The probing of line 167 is outside
\* the try block.
ProcessFile ==
    /\ pc = "file"
    /\ \E probe_ok \in BOOLEAN :
         IF ~probe_ok
         THEN /\ Uncaught
              /\ UNCHANGED <<out, stats, logs, results, last, k>>
         ELSE \E run \in {"returned", "raised"}, returncode \in {-1, 0, 1},
                 creates \in BOOLEAN, copy_probe_ok \in BOOLEAN, copy_ok \in BOOLEAN :
                /\ (run = "raised") = (returncode = -1)
                /\ (run = "raised" \/ creates) => (copy_probe_ok /\ copy_ok)
                /\ ~copy_probe_ok => copy_ok
                /\ LET r == FileOutcome(Cur, raw_files[k], out[Cur], stats, run,
                                        returncode, creates, copy_probe_ok, copy_ok)
                   IN  /\ out' = [out EXCEPT ![Cur] = r.out]
                       /\ stats' = r.stats
                       /\ logs' = Emit(logs, handlers, Cur, r.kinds)
                       /\ results' = Append(results,
                              [raw |-> r.rec.raw, dng_name |-> r.rec.dng_name,
                               output_exists |-> r.rec.output_exists,
                               result |-> r.rec.result])
                       /\ last' = r.rec
                /\ k' = k + 1
                /\ pc' = IF k = Len(raw_files) THEN "summary" ELSE "file"
                /\ UNCHANGED <<exit_status, fatal>>
    /\ UNCHANGED <<list_exists, adobe_exe, find_calls, folders, fi, called, src,
                   out_dir, handlers, raw_files, src0, out0, gup>>

\* Lines 224-226, and the return that follows them.
LogSummary ==
    /\ pc = "summary"
    /\ logs' = Emit(logs, handlers, Cur, {"summary"})
    /\ Return
    /\ UNCHANGED <<exit_status, fatal, list_exists, adobe_exe, find_calls, folders,
                   fi, called, src, out_dir, out, handlers, gup>>

Next ==
    \/ MainCheckList
    \/ MainFindExe
    \/ MainReadList
    \/ MainCallFolder
    \/ MainComplete
    \/ ResolveFolder
    \/ MakeOutputDir
    \/ SetupLogger
    \/ EnumerateFiles
    \/ ProcessFile
    \/ LogSummary

Spec == Init /\ [][Next]_vars

\* ------------------------------------- generate_unique_path, called directly
\* Highest suffix among the names the destination directory is drawn from.
MaxSuffix == 2

GenBases == {IMG_0001, IMG_0001_1}

GenExts == {DNG_EXT, <<"d", "n", "g">>, ext_cr2, <<"C", "R", "2">>}

GenNames ==
    {Candidate(IMG_0001, DNG_EXT, n) : n \in 0..MaxSuffix}
      \cup {IMG_0001_1 \o <<"_", "1">> \o DNG_EXT, IMG_0001 \o ext_cr2,
            IMG_0001 \o ext_CR2}

InitGen ==
    /\ pc = "gen"
    /\ exit_status = -1
    /\ fatal = "none"
    /\ list_exists = TRUE
    /\ adobe_exe = "none"
    /\ find_calls = 0
    /\ folders = <<>>
    /\ fi = 0
    /\ called = <<>>
    /\ src = [f \in Folders |-> EmptyDir]
    /\ out_dir = [f \in Folders |-> FALSE]
    /\ out = [f \in Folders |-> EmptyDir]
    /\ logs = [f \in Folders |-> {}]
    /\ handlers = <<>>
    /\ raw_files = <<>>
    /\ k = 0
    /\ stats = NoStats
    /\ results = <<>>
    /\ last = NoFile
    /\ src0 = EmptyDir
    /\ out0 = EmptyDir
    /\ gup = NoCall

\* One call of generate_unique_path(dest_folder, base_name, extension), D being
\* the names that exist in dest_folder.
CallGenerate ==
    /\ pc = "gen"
    /\ \E D \in SUBSET GenNames, base_name \in GenBases, extension \in GenExts :
         LET r == generate_unique_path(D, base_name, extension)
         IN  gup' = [D |-> D, base_name |-> base_name, extension |-> extension,
                     filename |-> r.filename, counter |-> r.counter]
    /\ pc' = "gen_returned"
    /\ UNCHANGED <<exit_status, fatal, list_exists, adobe_exe, find_calls,
                   folders, fi, called, src, out_dir, out, logs, handlers,
                   raw_files, k, stats, results, last, src0, out0>>

NextGen == CallGenerate

SpecGen == InitGen /\ [][NextGen]_vars


\* ================================================================== claims
InFolder == pc \in {"resolve", "mkdir", "setup_logger", "enumerate", "file", "summary"}

InLoop == pc \in {"file", "summary"}

Processed == last.result # "none"

\* C1: once the list file exists and the converter was found, every run ends
\* with exit status 0 after process_single_folder was called for every listed
\* folder, in order: no error raised inside a folder escapes.
C1_NoErrorEscapes ==
    (pc = "exited" /\ list_exists /\ adobe_exe = "path")
      => (exit_status = 0 /\ fatal = "none" /\ called = folders)

\* C2: generate_unique_path returns the first name of base.ext, base_1.ext,
\* base_2.ext, ... that is not in D: the name is not in D, the count n is >= 0,
\* the name is base.ext for n = 0 and base_<n>.ext otherwise, and every earlier
\* candidate is in D.
C2_FirstFreeName ==
    pc = "gen_returned" =>
      LET e == IF gup.extension[1] = "." THEN gup.extension
               ELSE <<".">> \o gup.extension
          name(n) == IF n = 0 THEN gup.base_name \o e
                     ELSE gup.base_name \o <<"_">> \o IntToStr(n) \o e
      IN  /\ gup.counter >= 0
          /\ gup.filename \notin gup.D
          /\ gup.filename = name(gup.counter)
          /\ \A m \in 0..(gup.counter - 1) : name(m) \in gup.D

\* C2 witness: two collisions were skipped, for an extension given without its dot.
C2_Witness ==
    /\ pc = "gen_returned"
    /\ gup.counter = 2
    /\ gup.extension = <<"d", "n", "g">>
    /\ gup.filename = IMG_0001 \o <<"_", "2">> \o DNG_EXT

CountOf(res) == Cardinality({j \in 1..Len(results) : results[j].result = res})

\* C3: every raw file processed so far has exactly one of the results converted,
\* copied, error, each counter is the number of files with that result, and when
\* the summary is logged the three counters add up to the number of raw files.
C3_OneResultPerFile ==
    InLoop =>
      /\ Len(results) = k - 1
      /\ \A j \in 1..Len(results) :
           /\ results[j].raw = raw_files[j]
           /\ results[j].result \in {"converted", "copied", "error"}
      /\ stats.converted = CountOf("converted")
      /\ stats.copied = CountOf("copied")
      /\ stats.errors = CountOf("error")
      /\ stats.converted + stats.copied + stats.errors = k - 1
      /\ (pc = "summary" =>
            stats.converted + stats.copied + stats.errors = Len(raw_files))

\* C3 witness: the summary of a folder with one converted and one failed file.
C3_Witness ==
    /\ pc = "summary"
    /\ stats.converted = 1
    /\ stats.errors = 1
    /\ Len(raw_files) = 2

\* C4: whenever the converter subprocess returns, the file is counted as
\* converted if and only if the expected output exists then, whatever the exit
\* status; an absent output leads into the fallback copy.
C4_SuccessByExistence ==
    (Processed /\ last.run = "returned") =>
      /\ (last.result = "converted") = last.output_exists
      /\ (~last.output_exists) = (last.copy_probe # "none")

\* C4 witness: a non-zero exit status with the output present counts as converted.
C4_Witness ==
    /\ last.run = "returned"
    /\ last.returncode = 1
    /\ last.output_exists
    /\ last.result = "converted"

SameStemPair(a) ==
    /\ a < Len(results)
    /\ results[a].raw # last.raw
    /\ Stem(results[a].raw) = Stem(last.raw)

\* C6 as stated: of two raw files with one stem in a folder whose output
\* directory held no .dng of that stem, the second one processed is given the
\* name <stem>_1.dng, whatever became of the first one's conversion.
C6_SecondCarriesSuffix ==
    (InLoop /\ Processed) =>
      \A a \in 1..Len(results) :
        (/\ SameStemPair(a)
         /\ Stem(last.raw) \o DNG_EXT \notin DOMAIN out0
         /\ Stem(last.raw) \o <<"_", "1">> \o DNG_EXT \notin DOMAIN out0)
          => last.dng_name = Stem(last.raw) \o <<"_", "1">> \o DNG_EXT

\* C6 as amended: the name given to the second file is never the name of the
\* first file's output when that output exists; it is <stem>_1.dng when the
\* first conversion produced <stem>.dng and <stem>_1.dng is free; and it is the
\* unsuffixed <stem>.dng when <stem>.dng does not exist, as after a first
\* conversion that produced nothing.
C6_NoOutputCollision ==
    (InLoop /\ Processed) =>
      \A a \in 1..Len(results) :
        SameStemPair(a) =>
          LET stem == Stem(last.raw)
          IN  /\ results[a].output_exists => last.dng_name # results[a].dng_name
              /\ (/\ results[a].output_exists
                  /\ results[a].dng_name = stem \o DNG_EXT
                  /\ stem \o <<"_", "1">> \o DNG_EXT \notin last.D)
                   => last.dng_name = stem \o <<"_", "1">> \o DNG_EXT
              /\ (stem \o DNG_EXT \notin last.D) => last.dng_name = stem \o DNG_EXT

\* C6 witness: the first file was converted to IMG_0001.dng and the second one
\* was directed to IMG_0001_1.dng.
C6_Witness ==
    /\ InLoop
    /\ Len(results) = 2
    /\ SameStemPair(1)
    /\ results[1].output_exists
    /\ results[1].dng_name = IMG_0001 \o DNG_EXT
    /\ last.dng_name = IMG_0001_1 \o DNG_EXT

\* C7: with DNG/IMG_0001.dng present before the run (and IMG_0001_1.dng free),
\* IMG_0001.cr2 is directed to IMG_0001_1.dng and a collision warning is logged;
\* a warning is logged for a file exactly when its collision count is > 0, and
\* no file that existed before is ever the conversion target.
C7_CollisionWarning ==
    (InLoop /\ Processed) =>
      /\ last.warned = (last.idx > 0)
      /\ last.warned => <<Cur, "collision">> \in logs[Cur]
      /\ (<<Cur, "collision">> \in logs[Cur]) =
           (\E j \in 1..Len(results) :
              results[j].dng_name # Stem(results[j].raw) \o DNG_EXT)
      /\ last.dng_name \notin DOMAIN out0
      /\ last.dng_name \notin last.D
      /\ (/\ last.raw = IMG_0001 \o ext_cr2
          /\ IMG_0001 \o DNG_EXT \in DOMAIN out0
          /\ IMG_0001_1 \o DNG_EXT \notin last.D)
           => (last.dng_name = IMG_0001_1 \o DNG_EXT /\ last.warned)

\* C7 witness: IMG_0001.dng was there before the run, and IMG_0001.cr2 was
\* directed to IMG_0001_1.dng with a warning in the folder's log.
C7_Witness ==
    /\ InLoop
    /\ last.raw = IMG_0001 \o ext_cr2
    /\ IMG_0001 \o DNG_EXT \in DOMAIN out0
    /\ last.dng_name = IMG_0001_1 \o DNG_EXT
    /\ <<Cur, "collision">> \in logs[Cur]

Touched ==
    \/ called # <<>>
    \/ handlers # <<>>
    \/ \E f \in Folders : LOG_FILENAME \in DOMAIN out[f] \/ logs[f] # {}
    \/ out_dir["B"]

FileHandlers == {j \in 1..Len(handlers) : IsFileHandler(handlers[j])}

\* C9: every record in a folder's conversion_log.txt was emitted while that
\* folder was processed; at most one file handler is attached at any time, and
\* while a folder's records are emitted it is that folder's handler.
C9_NoLogLeak ==
    /\ \A g \in Folders : \A r \in logs[g] : r[1] = g
    /\ Cardinality(FileHandlers) <= 1
    /\ pc \in {"enumerate", "file", "summary"} =>
         handlers = << <<"file", Cur>>, <<"console">> >>

\* C9 witness: folder B is being logged after folder A's log was written.
C9_Witness ==
    /\ pc = "enumerate"
    /\ Cur = "B"
    /\ logs["A"] # {}
    /\ handlers[1] = <<"file", "B">>

\* C10: while and after a folder is processed, its source files are as they
\* were, every file that was in its DNG directory (but the log) is as it was,
\* and a fallback copy is written only to a name that did not exist when it
\* was generated.
C10_InputsAndOutputsKept ==
    (InFolder \/ (pc = "exited" /\ fatal = "uncaught")) =>
      /\ src[Cur] = src0
      /\ \A n \in DOMAIN out0 \ {LOG_FILENAME} :
           n \in DOMAIN out[Cur] /\ out[Cur][n] = out0[n]
      /\ last.copy_attempts = 1 => last.copy_name \notin last.copy_D

\* C10 witness: a folder whose DNG directory held IMG_0001.dng got a converted
\* file and a fallback copy next to it.
C10_Witness ==
    /\ pc = "summary"
    /\ IMG_0001 \o DNG_EXT \in DOMAIN out0
    /\ stats.converted = 1
    /\ stats.copied = 1
    /\ out[Cur][IMG_0001 \o DNG_EXT] = <<"old", IMG_0001 \o DNG_EXT>>

====
